---- MODULE Spec2Model ----
(***************************************************************************)
(* Model of the solar-system simulator: the Camera gesture state machine   *)
(* (camera.py), the orbital update of the bodies (planet.py) and the       *)
(* loading, ordering and event handling of main.py.                        *)
(*                                                                         *)
(* Numbers.  Python floats are modelled as exact rationals <<n, d>> in     *)
(* lowest terms with d > 0, so every product, quotient and comparison of   *)
(* the code is computed, not approximated; rounding error is outside the   *)
(* model.  Distances (Vector2.distance_to) are irrational in general and   *)
(* are carried as their squares: for non-negative a, b and c >= 0,         *)
(* a / b > c is the same as a^2 / b^2 > c^2.                               *)
(***************************************************************************)
EXTENDS Integers, Sequences, FiniteSets, TLC

NONE == "None"

\* None where a Planet is expected (planet ids are 1, 2, ...).
NoPlanet == 0

(***************************************************************************)
(* Rational arithmetic                                                     *)
(***************************************************************************)
Abs(n) == IF n < 0 THEN -n ELSE n

RECURSIVE GCD(_, _)
GCD(a, b) == IF b = 0 THEN a ELSE GCD(b, a % b)

Rat(n, d) ==
    LET s == IF d < 0 THEN -1 ELSE 1
        g == GCD(Abs(n), Abs(d))
    IN  <<(s * n) \div g, (s * d) \div g>>

Int2R(n) == <<n, 1>>

RAdd(a, b) ==
    LET g == GCD(a[2], b[2])
    IN  Rat(a[1] * (b[2] \div g) + b[1] * (a[2] \div g), (a[2] \div g) * b[2])

RNeg(a) == <<-a[1], a[2]>>

RSub(a, b) == RAdd(a, RNeg(b))

RMul(a, b) ==
    LET g1 == GCD(Abs(a[1]), b[2])
        g2 == GCD(Abs(b[1]), a[2])
    IN  Rat((a[1] \div g1) * (b[1] \div g2), (a[2] \div g2) * (b[2] \div g1))

RInv(a) == Rat(a[2], a[1])

RDiv(a, b) == RMul(a, RInv(b))

\* Comparison: by the integer parts first, then by the fractional parts.
RLt(a, b) ==
    LET fa == a[1] \div a[2]
        fb == b[1] \div b[2]
    IN  IF fa # fb THEN fa < fb ELSE (a[1] % a[2]) * b[2] < (b[1] % b[2]) * a[2]

RLe(a, b) == ~RLt(b, a)

RMax(a, b) == IF RLt(a, b) THEN b ELSE a

RMin(a, b) == IF RLt(b, a) THEN b ELSE a

(* pygame.Vector2 values: pairs of rationals. *)
Vec(x, y) == <<Int2R(x), Int2R(y)>>

VAdd(p, q) == <<RAdd(p[1], q[1]), RAdd(p[2], q[2])>>

VSub(p, q) == <<RSub(p[1], q[1]), RSub(p[2], q[2])>>

VScale(p, k) == <<RMul(p[1], k), RMul(p[2], k)>>

VDiv(p, k) == <<RDiv(p[1], k), RDiv(p[2], k)>>

(* Vector2.distance_to, squared. *)
distance_to2(p, q) ==
    LET d == VSub(p, q)
    IN  RAdd(RMul(d[1], d[1]), RMul(d[2], d[2]))

(***************************************************************************)
(* Bounds of the model and the inputs it draws from                        *)
(***************************************************************************)
\* Events handled in one behaviour of the event specifications.
MaxEvents == 3

\* Touch events handled in one behaviour of the touch specification.
MaxTouchEvents == 4

\* Frames simulated in one behaviour of the body specification.
MaxFrames == 2

\* Names a body record may carry (one body per name at most).
Names == {"Sol", "Terra", "Lua"}

\* (a_au, period_days) of a record: a static body, or an orbit of one day.
OrbitParams == {<<0, 0>>, <<1, 1>>}

\* Frame times clock.tick can return, in milliseconds (dt = ms / 1000).
TickMs == {0, 720}

\* Finger events of a run around the dead zone of the pinch.
MaxPinchEvents == 3

\* Frames of a run with a fixed dt.
MaxOrbitFrames == 4

\* Mouse events delivered to a camera that never sees a touch.
MaxMouseEvents == 4

\* Input events delivered over the frames of a run of the frame loop.
MaxFrameEvents == 3

\* A dt below zero so small that omega * dt is lost when it is added to 2*pi
\* (for instance -1e-18 s): its magnitude is below what the integers of the
\* model resolve, and this value stands for it.
TinyNegativeMs == -1

\* (a_au, period_days) for update_position taken alone: a static body, an
\* orbit of one day, an orbit of 365 days, a period of zero and a negative
\* semi-major axis.
YearOrbitParams == {<<0, 0>>, <<1, 1>>, <<1, 365>>, <<1, 0>>, <<-1, 1>>}

\* Values of dt for update_position taken alone, in milliseconds: with
\* TIME_SCALE = 30000 an orbit of 365 days takes 1051200 s, that is four steps
\* of 262800 s, two of 525600 s or one of 1051200 s; zero and negative values.
OrbitTicks == {0, 262800, 525600, 1051200, -262800, TinyNegativeMs}

(***************************************************************************)
(* State                                                                   *)
(***************************************************************************)
VARIABLES
    \* main.py: the program position and the frame loop
    pc,                       \* "load", "loaded", "events", "update"
    arr,                      \* the records read from planets.json
    bodies,                   \* the list `bodies`: planet ids, in list order
    dt,                       \* the frame's dt, as milliseconds of clock.tick
    upd,                      \* index in `bodies` of the next body to update
    frames,                   \* frames completed
    selected_planet, follow_planet, camera_locked_to_planet,
    \* planet.py: Planet objects, by id (index of the record in arr)
    parent,                   \* Planet.parent: id or NoPlanet
    angle,                    \* Planet.angle, in turns (2*pi radians = 1)
    posRef,                   \* Planet.position: the Vector2 object it names
    heap,                     \* Vector2 objects: reference -> value
    \* camera.py: the Camera object
    min_zoom, max_zoom, position, zoom, dragging, is_dragging,
    last_mouse_pos, touches, last_pinch_dist,
    screen_size,              \* pygame.display.get_surface().get_size()
    \* history
    event,                    \* the kind of the event handled last
    zoom_call,                \* <<screen_point, world_before>> of the call of
                              \* _apply_zoom_around_point it made, or NONE
    nEvents,                  \* events handled
    pan_button_held,          \* the pan button was pressed with no touch active
                              \* and has not been released since
    downs, ups,               \* FINGERDOWN / FINGERUP events handled
    newDowns, liveUps,        \* ... for a finger not yet / still in touches
    newMotions                \* FINGERMOTION events for a finger not in touches

mainVars == <<pc, arr, bodies, dt, upd, frames>>
lockVars == <<selected_planet, follow_planet, camera_locked_to_planet>>
planetVars == <<parent, angle, posRef, heap>>
camVars == <<position, zoom, dragging, is_dragging, last_mouse_pos, touches,
             last_pinch_dist>>
envVars == <<min_zoom, max_zoom, screen_size>>
histVars == <<event, zoom_call, nEvents, pan_button_held>>
countVars == <<downs, ups, newDowns, liveUps, newMotions>>
vars == <<mainVars, lockVars, planetVars, camVars, envVars, histVars, countVars>>

(***************************************************************************)
(* main.py: constants                                                      *)
(***************************************************************************)
AU_TO_PX == 3000

TIME_SCALE == 30000

RADIUS_MIN == 1

RADIUS_MAX == 120

\* RADIUS_SCALE = 0.001
RADIUS_SCALE == Rat(1, 1000)

\* radius_km of the records, by name (input data).
RadiusKm(name) ==
    CASE name = "Sol" -> 696000
      [] name = "Terra" -> 6000
      [] OTHER -> 2000

\* str.lower() on the names of the model.
Lower(name) ==
    CASE name = "Sol" -> "sol"
      [] name = "Terra" -> "terra"
      [] name = "Lua" -> "lua"
      [] OTHER -> name

Range(f) == {f[x] : x \in DOMAIN f}

\* Sequences without repetition over a set, of every length 1 .. |S|.
InjSeqs(S) ==
    {s \in UNION {[1..n -> S] : n \in 1..Cardinality(S)} :
        \A i, j \in DOMAIN s : i # j => s[i] # s[j]}

\* The record lists planets.json may hold, with names from `names`, orbits
\* from `params` and parent names from `parents`.
SystemsOver(names, params, parents) ==
    {[i \in DOMAIN ns |->
        [name |-> ns[i], a_au |-> op[i][1], period_days |-> op[i][2],
         parent_name |-> pn[i]]] :
     <<ns, op, pn>> \in
        UNION {{ns} \X [DOMAIN ns -> params] \X [DOMAIN ns -> parents \cup {NONE}] :
               ns \in InjSeqs(names)}}

Systems == SystemsOver(Names, OrbitParams, Names)

(***************************************************************************)
(* planet.py                                                               *)
(***************************************************************************)
clamp(value, vmin, vmax) == RMax(vmin, RMin(vmax, value))

\* Planet.set_visual_scale: radius_px of a record.
radius_px(rec) ==
    clamp(RMul(Int2R(RadiusKm(rec.name)), RADIUS_SCALE), Int2R(RADIUS_MIN), Int2R(RADIUS_MAX))

\* Vector2 references: one per planet, and one spare for a copy being made.
Refs(a) == 1..(Len(a) + 1)

\* A reference no planet names: where Vector2.copy() puts the new object.
FreshRef(refs) == CHOOSE r \in 1..(Cardinality(DOMAIN refs) + 1) : r \notin Range(refs)

\* Objects no planet names any more are dropped (their cell is cleared).
Collect(h, refs) == [r \in DOMAIN h |-> IF r \in Range(refs) THEN h[r] ELSE Vec(0, 0)]

Pos(p) == heap[posRef[p]]

\* cos and sin of an angle given in turns, on the quarter turns.
CosTurn(a) ==
    CASE a = <<0, 1>> -> 1 [] a = <<1, 4>> -> 0 [] a = <<1, 2>> -> -1 [] a = <<3, 4>> -> 0
      [] a = <<1, 1>> -> 1

SinTurn(a) ==
    CASE a = <<0, 1>> -> 0 [] a = <<1, 4>> -> 1 [] a = <<1, 2>> -> 0 [] a = <<3, 4>> -> -1
      [] a = <<1, 1>> -> 0

\* A wrap written as `while angle > 2*pi: angle -= 2*pi`: a whole number of
\* turns is left at one turn.
ModTurnWrapAbove(a) ==
    IF a[1] % a[2] = 0 /\ a[1] > 0 THEN <<1, 1>> ELSE Rat(a[1] % a[2], a[2])

\* x % (2*pi) in turns: Python's float % takes the sign of the divisor.
ModTurn(a) == Rat(a[1] % a[2], a[2])

\* self.angle + omega * delta, then % (2.0 * math.pi), in float arithmetic for
\* the delta TinyNegativeMs, whose product with omega is negative and smaller
\* in magnitude than half the spacing of the floats next to 2*pi and next to
\* any angle but 0.0. Added to an angle other than 0.0 it rounds away, and the
\* result is angle % 2*pi; added to 0.0 it is kept, and Python's % then
\* returns fmod(x, 2*pi) + 2*pi rounded to the nearest float, which is 2*pi
\* itself.
TinyNegativeStep(a) ==
    IF a = <<0, 1>> THEN <<1, 1>> ELSE ModTurn(a)

\* (self.angle + omega * delta) % (2.0 * math.pi), in turns.
AngleAfter(a, omega, ms) ==
    IF ms = TinyNegativeMs
    THEN TinyNegativeStep(a)
    ELSE ModTurn(RAdd(a, RMul(omega, Rat(ms, 1000))))

\* The parent's Vector2 taken as it is, without copy().
SnapToParentShared(p, refs, h) ==
    LET refs2 == [refs EXCEPT ![p] = refs[parent[p]]]
    IN  [posRef |-> refs2, heap |-> Collect(h, refs2)]

\* The position a body with a parent takes in the degenerate case:
\* self.position = self.parent.position.copy().
SnapToParent(p, refs, h) ==
    LET r == FreshRef(refs)
        refs2 == [refs EXCEPT ![p] = r]
    IN  [posRef |-> refs2, heap |-> Collect([h EXCEPT ![r] = h[refs[parent[p]]]], refs2)]

\* An update_position that takes an orbit for degenerate only when both its
\* period and its semi-major axis are.
DegenerateBoth(rec) == rec.period_days <= 0 /\ rec.a_au <= 0

\* `if self.period_days <= 0.0 or self.a_au <= 0.0`
Degenerate(rec) == rec.period_days <= 0 \/ rec.a_au <= 0

\* Planet.update_position(delta), delta = ms / 1000 seconds: the new
\* [angle, posRef, heap].
update_position(p, ms) ==
    LET rec == arr[p]
        T_real == RMul(Int2R(rec.period_days), Int2R(86400))
        omega == RDiv(Int2R(TIME_SCALE), T_real)
        newAngle == AngleAfter(angle[p], omega, ms)
        r == rec.a_au * AU_TO_PX
        rel == Vec(CosTurn(newAngle) * r, SinTurn(newAngle) * r)
        same == [angle |-> angle, posRef |-> posRef, heap |-> heap]
    IN  IF Degenerate(rec)
        THEN IF parent[p] = NoPlanet
             THEN [same EXCEPT !.heap = [heap EXCEPT ![posRef[p]] = Vec(0, 0)]]
             ELSE LET s == SnapToParent(p, posRef, heap)
                  IN  [same EXCEPT !.posRef = s.posRef, !.heap = s.heap]
        ELSE IF T_real = <<0, 1>>
        THEN same
        ELSE [angle |-> [angle EXCEPT ![p] = newAngle],
              posRef |-> posRef,
              heap |-> [heap EXCEPT ![posRef[p]] =
                           IF parent[p] = NoPlanet THEN rel ELSE VAdd(Pos(parent[p]), rel)]]

(***************************************************************************)
(* main.py: load_solar_system, reorder_bodies_for_buttons                  *)
(***************************************************************************)
\* by_name = {p.planet_name: p for p in bodies}: the last body of that name.
by_name(a, n) ==
    IF \E i \in DOMAIN a : a[i].name = n
    THEN CHOOSE i \in DOMAIN a : a[i].name = n /\ \A j \in DOMAIN a : a[j].name = n => j <= i
    ELSE NoPlanet

\* A link pass that gives a body whose parent is not found the first body as parent.
ResolveParentOrFirst(a, p) ==
    IF a[p].parent_name # NONE
    THEN (IF by_name(a, a[p].parent_name) # NoPlanet THEN by_name(a, a[p].parent_name) ELSE 1)
    ELSE NoPlanet

\* The second pass of load_solar_system: p.parent for every body.
ResolveParent(a, p) ==
    IF a[p].parent_name # NONE THEN by_name(a, a[p].parent_name) ELSE NoPlanet

LinkParents(a) == [p \in DOMAIN a |-> ResolveParent(a, p)]

\* bodies.sort(key=lambda p: 0 if p.parent is None else 1): stable.
SortKey(par, p) == IF par[p] = NoPlanet THEN 0 ELSE 1

SortBodies(ids, par) ==
    SelectSeq(ids, LAMBDA p : SortKey(par, p) = 0) \o SelectSeq(ids, LAMBDA p : SortKey(par, p) = 1)

\* The position load_solar_system gives a new planet.
InitialPosition(rec) == IF rec.a_au <= 0 THEN Vec(0, 0) ELSE Vec(rec.a_au * AU_TO_PX, 0)

IsEarth(a, p) == Lower(a[p].name) \in {"terra", "earth"}

IsMoon(a, p) == ~IsEarth(a, p) /\ Lower(a[p].name) \in {"lua", "moon"}

\* The last body of the list among those in S, or NoPlanet.
LastWith(list, S) ==
    IF \E i \in DOMAIN list : list[i] \in S
    THEN list[CHOOSE i \in DOMAIN list :
            /\ list[i] \in S
            /\ \A j \in DOMAIN list : list[j] \in S => j <= i]
    ELSE NoPlanet

RECURSIVE ReorderLoop(_, _, _, _, _)
ReorderLoop(list, i, earth, moon, added_moon) ==
    IF i > Len(list) THEN <<>>
    ELSE IF list[i] = earth
         THEN <<list[i], moon>> \o ReorderLoop(list, i + 1, earth, moon, TRUE)
         ELSE IF list[i] = moon
              THEN (IF added_moon THEN <<>> ELSE <<list[i]>>)
                      \o ReorderLoop(list, i + 1, earth, moon, added_moon)
              ELSE <<list[i]>> \o ReorderLoop(list, i + 1, earth, moon, added_moon)

reorder_bodies_for_buttons(a, list) ==
    LET earth == LastWith(list, {p \in DOMAIN a : IsEarth(a, p)})
        moon == LastWith(list, {p \in DOMAIN a : IsMoon(a, p)})
    IN  IF earth = NoPlanet \/ moon = NoPlanet THEN list
        ELSE ReorderLoop(list, 1, earth, moon, FALSE)

\* The list load_solar_system returns.
LoadedBodies(a) == SortBodies([i \in DOMAIN a |-> i], LinkParents(a))

(***************************************************************************)
(* camera.py                                                               *)
(***************************************************************************)
pan_enabled == TRUE

\* PAN_BASE_SPEED = 3.0
PAN_BASE_SPEED == 3

\* Camera._screen_size, and the screen_center the methods derive from it.
screen_center == <<Rat(screen_size[1], 2), Rat(screen_size[2], 2)>>

\* A clamp that forgets the upper limit.
ClampZoomNoMax(new_zoom) == RMax(min_zoom, new_zoom)

\* max(self.min_zoom, min(self.max_zoom, new_zoom))
ClampZoom(new_zoom) == RMax(min_zoom, RMin(max_zoom, new_zoom))

\* world_before = (screen_point - screen_center) / self.zoom + self.position
WorldBefore(screen_point) == VAdd(VDiv(VSub(screen_point, screen_center), zoom), position)

\* The position recomputed with the zoom of before the change.
PositionAfterOldZoom(world_before, screen_point, z) ==
    VSub(world_before, VDiv(VSub(screen_point, screen_center), zoom))

\* self.position = world_before - (screen_point - screen_center) / self.zoom,
\* with the zoom already committed.
PositionAfter(world_before, screen_point, z) == VSub(world_before, VDiv(VSub(screen_point, screen_center), z))

\* Camera._apply_zoom_around_point: the new zoom and position.
apply_zoom_around_point(new_zoom, screen_point) ==
    LET world_before == WorldBefore(screen_point)
        z == ClampZoom(new_zoom)
    IN  [zoom |-> z, position |-> PositionAfter(world_before, screen_point, z),
         screen_point |-> screen_point, world_before |-> world_before]

\* What the history keeps of a call of _apply_zoom_around_point.
ZoomCall(z) == <<z.screen_point, z.world_before>>

\* A pan that moves the camera the same way whatever the sign of the delta.
PanFromOneWay(pos, z, rel) ==
    LET zoom_factor == RMax(z, Rat(5, 100))
        k == RDiv(Int2R(PAN_BASE_SPEED), zoom_factor)
    IN  VSub(pos, <<RMul(Rat(Abs(rel[1][1]), rel[1][2]), k), RMul(Rat(Abs(rel[2][1]), rel[2][2]), k)>>)

\* Camera._pan_with_delta on a camera at pos with zoom z: the new position.
\* The zoom is not assigned.
PanFrom(pos, z, rel) ==
    LET zoom_factor == RMax(z, Rat(5, 100))
        move == VScale(rel, RDiv(Int2R(PAN_BASE_SPEED), zoom_factor))
    IN  VSub(pos, move)

\* Camera._pan_with_delta: the new position.
pan_with_delta(rel) == PanFrom(position, zoom, rel)

\* pygame.Vector2(event.x * screen_w, event.y * screen_h)
FingerPos(e) == <<RMul(e.x, Int2R(screen_size[1])), RMul(e.y, Int2R(screen_size[2]))>>

\* list(self.touches.values()): used for one entry, or for two symmetrically.
Fingers(t) ==
    LET ids == DOMAIN t
        f1 == CHOOSE i \in ids : \A j \in ids : i <= j
    IN  IF Cardinality(ids) = 1 THEN <<t[f1]>>
        ELSE LET f2 == CHOOSE i \in ids \ {f1} : \A j \in ids \ {f1} : i <= j
             IN  <<t[f1], t[f2]>>

\* self.touches[event.finger_id] = pos
PutTouch(t, id, pos) == [i \in DOMAIN t \cup {id} |-> IF i = id THEN pos ELSE t[i]]

\* A finger-up that forgets every touch.
DelTouchAll(t, id) == <<>>

\* del self.touches[event.finger_id], guarded by `in`
DelTouch(t, id) == [i \in DOMAIN t \ {id} |-> t[i]]

_handle_finger_down(e) ==
    LET pos == FingerPos(e)
        t == PutTouch(touches, e.finger_id, pos)
        n == Cardinality(DOMAIN t)
    IN  /\ touches' = t
        /\ IF n = 1
           THEN /\ dragging' = TRUE
                /\ is_dragging' = TRUE
                /\ last_mouse_pos' = pos
                /\ UNCHANGED last_pinch_dist
           ELSE IF n = 2
           THEN /\ last_pinch_dist' = distance_to2(Fingers(t)[1], Fingers(t)[2])
                /\ UNCHANGED <<dragging, is_dragging, last_mouse_pos>>
           ELSE UNCHANGED <<dragging, is_dragging, last_mouse_pos, last_pinch_dist>>
        /\ zoom_call' = NONE
        /\ UNCHANGED <<position, zoom>>

_handle_finger_up(e) ==
    LET t == IF e.finger_id \in DOMAIN touches THEN DelTouch(touches, e.finger_id) ELSE touches
        n == Cardinality(DOMAIN t)
    IN  /\ touches' = t
        /\ IF n = 0
           THEN /\ dragging' = FALSE
                /\ is_dragging' = FALSE
                /\ last_pinch_dist' = NONE
                /\ UNCHANGED last_mouse_pos
           ELSE IF n = 1
           THEN /\ last_mouse_pos' = Fingers(t)[1]
                /\ last_pinch_dist' = NONE
                /\ UNCHANGED <<dragging, is_dragging>>
           ELSE UNCHANGED <<dragging, is_dragging, last_mouse_pos, last_pinch_dist>>
        /\ zoom_call' = NONE
        /\ UNCHANGED <<position, zoom>>

\* The dead zone of the pinch, on squared distances: 1.01^2 and 0.99^2.
PinchSpread == Rat(10201, 10000)

PinchClose == Rat(9801, 10000)

\* A pinch anchored on the first of the two fingers.
pinch_center_first(p1, p2) == p1

\* pinch_center = (p1 + p2) / 2
pinch_center(p1, p2) == VDiv(VAdd(p1, p2), Int2R(2))

\* A pinch that steps on any change of the distance.
PinchZoomNoDeadZone(new_dist) ==
    IF last_pinch_dist # NONE /\ RLt(Int2R(0), last_pinch_dist)
    THEN IF RLt(last_pinch_dist, new_dist) THEN RMul(zoom, Rat(9, 10))
         ELSE IF RLt(new_dist, last_pinch_dist) THEN RMul(zoom, Rat(11, 10))
         ELSE NONE
    ELSE NONE

\* A pinch that takes a missing or zero baseline for a spread.
PinchZoomUnguarded(new_dist) ==
    IF last_pinch_dist = NONE \/ last_pinch_dist = Int2R(0)
    THEN RMul(zoom, Rat(9, 10))
    ELSE LET dist_ratio == RDiv(new_dist, last_pinch_dist)
         IN  IF RLt(PinchSpread, dist_ratio) THEN RMul(zoom, Rat(9, 10))
             ELSE IF RLt(dist_ratio, PinchClose) THEN RMul(zoom, Rat(11, 10))
             ELSE NONE

\* The zoom a pinch motion asks for, or NONE inside the dead zone or without
\* a positive baseline (new_dist and the baseline are squared distances).
PinchZoom(new_dist) ==
    IF last_pinch_dist # NONE /\ RLt(Int2R(0), last_pinch_dist)
    THEN LET dist_ratio == RDiv(new_dist, last_pinch_dist)
         IN  IF RLt(PinchSpread, dist_ratio) THEN RMul(zoom, Rat(9, 10))
             ELSE IF RLt(dist_ratio, PinchClose) THEN RMul(zoom, Rat(11, 10))
             ELSE NONE
    ELSE NONE

\* A previous position taken from the reference the mouse pan keeps.
OldPosLastMouse(finger_id, new_pos) == last_mouse_pos

\* old_pos = self.touches.get(event.finger_id, new_pos)
OldPos(finger_id, new_pos) ==
    IF finger_id \in DOMAIN touches THEN touches[finger_id] ELSE new_pos

\* A camera that pinches with the first two of any number of touches.
IsPinchOrMore(n) == n >= 2

\* `elif len(self.touches) == 2`
IsPinch(n) == n = 2

\* Camera._handle_finger_motion
_handle_finger_motion(e) ==
    LET new_pos == FingerPos(e)
        old_pos == OldPos(e.finger_id, new_pos)
        t == PutTouch(touches, e.finger_id, new_pos)
        n == Cardinality(DOMAIN t)
    IN  /\ touches' = t
        /\ IF n = 1
           THEN /\ dragging' = TRUE
                /\ is_dragging' = TRUE
                /\ position' = pan_with_delta(VSub(new_pos, old_pos))
                /\ zoom_call' = NONE
                /\ UNCHANGED <<zoom, last_mouse_pos, last_pinch_dist>>
           ELSE IF IsPinch(n)
           THEN LET p1 == Fingers(t)[1]
                    p2 == Fingers(t)[2]
                    new_dist == distance_to2(p1, p2)
                    new_zoom == PinchZoom(new_dist)
                    z == apply_zoom_around_point(new_zoom, pinch_center(p1, p2))
                IN  /\ IF new_zoom # NONE
                       THEN /\ zoom' = z.zoom
                            /\ position' = z.position
                            /\ zoom_call' = ZoomCall(z)
                       ELSE zoom_call' = NONE /\ UNCHANGED <<zoom, position>>
                    /\ last_pinch_dist' = new_dist
                    /\ UNCHANGED <<dragging, is_dragging, last_mouse_pos>>
           ELSE /\ zoom_call' = NONE
                /\ UNCHANGED <<position, zoom, dragging, is_dragging, last_mouse_pos,
                               last_pinch_dist>>

\* A wheel turned the other way round.
ScrollFactorSwapped(button) == IF button = 4 THEN Rat(11, 10) ELSE Rat(9, 10)

\* The factor of a scroll: `self.zoom * 0.9` for button 4, `* 1.1` for button 5.
ScrollFactor(button) == IF button = 4 THEN Rat(9, 10) ELSE Rat(11, 10)

\* A camera without the guard on active touches.
MouseNeverIgnored == FALSE

\* `if self.touches: return`: mouse events are dropped while a touch is active.
MouseIgnored == DOMAIN touches # {}

\* A camera whose pointer motion pans whether or not a drag is under way.
MousePansAlways == TRUE

\* `if self._dragging and self.pan_enabled`, the guard of the pan by pointer
\* motion.
MousePans == dragging /\ pan_enabled

\* The mouse branch of Camera.handle_event.
HandleMouse(e) ==
    IF e.type = "MOUSEBUTTONDOWN"
    THEN IF e.button = 3 /\ pan_enabled
         THEN /\ dragging' = TRUE
              /\ is_dragging' = TRUE
              /\ last_mouse_pos' = e.pos
              /\ zoom_call' = NONE
              /\ UNCHANGED <<position, zoom, touches, last_pinch_dist>>
         ELSE IF e.button \in {4, 5}
         THEN LET new_zoom == RMul(zoom, ScrollFactor(e.button))
                  z == apply_zoom_around_point(new_zoom, e.pos)
              IN  /\ zoom' = z.zoom
                  /\ position' = z.position
                  /\ zoom_call' = ZoomCall(z)
                  /\ UNCHANGED <<dragging, is_dragging, last_mouse_pos, touches,
                                 last_pinch_dist>>
         ELSE zoom_call' = NONE /\ UNCHANGED camVars
    ELSE IF e.type = "MOUSEBUTTONUP"
    THEN IF e.button = 3
         THEN /\ dragging' = FALSE
              /\ is_dragging' = FALSE
              /\ zoom_call' = NONE
              /\ UNCHANGED <<position, zoom, last_mouse_pos, touches, last_pinch_dist>>
         ELSE zoom_call' = NONE /\ UNCHANGED camVars
    ELSE IF e.type = "MOUSEMOTION" /\ MousePans
    THEN /\ position' = pan_with_delta(e.rel)
         /\ zoom_call' = NONE
         /\ UNCHANGED <<zoom, dragging, is_dragging, last_mouse_pos, touches,
                        last_pinch_dist>>
    ELSE zoom_call' = NONE /\ UNCHANGED camVars

\* Camera.handle_event
handle_event(e) ==
    IF e.type = "FINGERDOWN" THEN _handle_finger_down(e)
    ELSE IF e.type = "FINGERUP" THEN _handle_finger_up(e)
    ELSE IF e.type = "FINGERMOTION" THEN _handle_finger_motion(e)
    ELSE IF MouseIgnored THEN zoom_call' = NONE /\ UNCHANGED camVars
    ELSE HandleMouse(e)

(***************************************************************************)
(* main.py: the event loop                                                 *)
(***************************************************************************)
\* get_focus_zoom_for_planet, for names that are the keys it looks for.
get_focus_zoom_for_planet(name) ==
    LET n == Lower(name)
    IN  IF n \in {"sol", "sun"} THEN Rat(2, 1)
        ELSE IF n \in {"jupiter"} THEN Rat(3, 1)
        ELSE IF n \in {"saturno", "saturn"} THEN Rat(32, 10)
        ELSE IF n \in {"mercurio", "mercury"} THEN Rat(6, 1)
        ELSE IF n \in {"lua", "moon"} THEN Rat(65, 10)
        ELSE Rat(5, 1)

\* build_planet_buttons: the rect <<x, y, w, h>> of the k-th button (k = 1 ..).
ButtonRect(k) ==
    LET margin == 10
        button_height == 36
        n == Len(bodies)
        available_width == screen_size[1] - 2 * margin
        fit == (available_width - (n - 1) * margin) \div n
        button_width == IF fit < 80 THEN 80 ELSE fit
    IN  <<margin + (k - 1) * (button_width + margin),
          screen_size[2] - button_height - margin, button_width, button_height>>

\* rect.collidepoint(mouse_pos), for integer mouse positions
collidepoint(rect, pos) ==
    /\ RLe(Int2R(rect[1]), pos[1]) /\ RLt(pos[1], Int2R(rect[1] + rect[3]))
    /\ RLe(Int2R(rect[2]), pos[2]) /\ RLt(pos[2], Int2R(rect[2] + rect[4]))

\* The first button under the mouse: its index in `bodies`, or 0.
ClickedButton(pos) ==
    IF \E k \in DOMAIN bodies : collidepoint(ButtonRect(k), pos)
    THEN CHOOSE k \in DOMAIN bodies :
            /\ collidepoint(ButtonRect(k), pos)
            /\ \A j \in DOMAIN bodies : collidepoint(ButtonRect(j), pos) => k <= j
    ELSE 0

\* dx^2 + dy^2 <= r^2 for r >= 0, decided on the integer parts of |dx|, |dy|
\* and r where they settle it, and on the exact squares otherwise.
WithinRadius(d, r) ==
    LET ax == IF d[1][1] < 0 THEN RNeg(d[1]) ELSE d[1]
        ay == IF d[2][1] < 0 THEN RNeg(d[2]) ELSE d[2]
        fx == ax[1] \div ax[2]
        fy == ay[1] \div ay[2]
        fr == r[1] \div r[2]
    IN  IF fx > fr \/ fy > fr THEN FALSE
        ELSE IF fx * fx + fy * fy > (fr + 1) * (fr + 1) THEN FALSE
        ELSE IF (fx + 1) * (fx + 1) + (fy + 1) * (fy + 1) <= fr * fr THEN TRUE
        ELSE RLe(RAdd(RMul(ax, ax), RMul(ay, ay)), RMul(r, r))

\* Planet.is_clicked(mouse_pos, camera), click_tolerance = 1.2:
\* mouse_vec.distance_to(screen_pos) <= radius_on_screen.
is_clicked(p, mouse_pos) ==
    LET screen_pos == VAdd(VScale(VSub(Pos(p), position), zoom), screen_center)
        radius_on_screen == RMul(RMul(radius_px(arr[p]), zoom), Rat(12, 10))
    IN  WithinRadius(VSub(mouse_pos, screen_pos), radius_on_screen)

\* The first body of the list under the mouse, or NoPlanet.
ClickedPlanet(mouse_pos) ==
    IF \E k \in DOMAIN bodies : is_clicked(bodies[k], mouse_pos)
    THEN bodies[CHOOSE k \in DOMAIN bodies :
            /\ is_clicked(bodies[k], mouse_pos)
            /\ \A j \in DOMAIN bodies : is_clicked(bodies[j], mouse_pos) => k <= j]
    ELSE NoPlanet

\* cam.zoom = max(cam.min_zoom, min(cam.max_zoom, desired_zoom))
FocusZoom(p) == ClampZoom(get_focus_zoom_for_planet(arr[p].name))

\* main, the body of `if event.type == MOUSEBUTTONDOWN and event.button == 1`.
\* cam.handle_event has run before it and leaves the camera as it is for
\* button 1, with or without touches.
HandleClick(e) ==
    LET k == ClickedButton(e.pos)
        clicked_planet == ClickedPlanet(e.pos)
    IN  IF k # 0
        THEN /\ selected_planet' = bodies[k]
             /\ follow_planet' = bodies[k]
             /\ camera_locked_to_planet' = TRUE
             /\ zoom' = FocusZoom(bodies[k])
             /\ position' = Pos(bodies[k])
             /\ UNCHANGED <<dragging, is_dragging, last_mouse_pos, touches, last_pinch_dist>>
        ELSE /\ selected_planet' = clicked_planet
             /\ IF clicked_planet # NoPlanet
                THEN /\ follow_planet' = NoPlanet
                     /\ camera_locked_to_planet' = FALSE
                     /\ position' = Pos(clicked_planet)
                ELSE UNCHANGED <<follow_planet, camera_locked_to_planet, position>>
             /\ UNCHANGED <<zoom, dragging, is_dragging, last_mouse_pos, touches,
                            last_pinch_dist>>

IsClick(e) == e.type = "MOUSEBUTTONDOWN" /\ e.button = 1

\* What the history keeps of an event: its type, the button of a press or
\* release, and the pointer position of a press.
EventKind(e) ==
    [type |-> e.type,
     button |-> IF e.type \in {"MOUSEBUTTONDOWN", "MOUSEBUTTONUP"} THEN e.button ELSE 0,
     pos |-> IF e.type = "MOUSEBUTTONDOWN" THEN e.pos ELSE NONE]

\* Whether the pan button, pressed while no touch was active, is still down
\* after event e.
PanButtonHeld(e) ==
    IF e.type = "MOUSEBUTTONDOWN" /\ e.button = 3 /\ DOMAIN touches = {} THEN TRUE
    ELSE IF e.type = "MOUSEBUTTONUP" /\ e.button = 3 THEN FALSE
    ELSE pan_button_held

\* One iteration of `for event in pygame.event.get()`.
ProcessEvent(e) ==
    /\ pc = "events"
    /\ IF IsClick(e)
       THEN HandleClick(e) /\ zoom_call' = NONE
       ELSE handle_event(e) /\ UNCHANGED lockVars
    /\ event' = EventKind(e)
    /\ nEvents' = nEvents + 1
    /\ pan_button_held' = PanButtonHeld(e)
    /\ UNCHANGED <<mainVars, planetVars, envVars>>

(***************************************************************************)
(* Inputs: the events pygame may deliver                                   *)
(***************************************************************************)
FingerIds == {1, 2, 3}

\* Screen positions of touches.
TouchPoints == {<<100, 300>>, <<200, 300>>, <<50, 300>>}

\* Screen positions of the pointer for the pan button and the wheel.
MousePoints == {<<400, 300>>, <<100, 200>>}

\* event.rel of a pointer motion.
Rels == {<<10, 0>>, <<-10, 0>>}

\* Fingers and touch positions of a pinch around the dead zone: from 100 px
\* apart to 99, 101 (ratios 0.99 and 1.01) and 102 px apart.
PinchFingerIds == {1, 2}

PinchPoints == {<<100, 300>>, <<200, 300>>, <<199, 300>>, <<201, 300>>, <<202, 300>>}

\* Camera(min_zoom, max_zoom) and the display size: main's camera in main's
\* window, and a camera with a narrow zoom range on a smaller surface.
MainSetup == [min_zoom |-> Rat(15, 10000), max_zoom |-> Rat(10, 1), screen_size |-> <<1280, 720>>]

Setups ==
    {MainSetup,
     [min_zoom |-> Rat(85, 100), max_zoom |-> Rat(12, 10), screen_size |-> <<800, 600>>]}

\* Touch events carry normalised coordinates: x = px / screen_w, y = py / screen_h.
FingerEventsOver(type, ids, points) ==
    {[type |-> type, finger_id |-> f, x |-> Rat(pt[1], screen_size[1]),
      y |-> Rat(pt[2], screen_size[2])] : f \in ids, pt \in points}

FingerEvents(type) == FingerEventsOver(type, FingerIds, TouchPoints)

\* FINGERUP events: _handle_finger_up reads event.finger_id only, and one
\* position stands for all.
FingerUpEvents(ids) == FingerEventsOver("FINGERUP", ids, {<<100, 300>>})

\* The middle of the k-th selector button.
ButtonPoint(k) ==
    LET r == ButtonRect(k) IN <<r[1] + r[3] \div 2, r[2] + r[4] \div 2>>

\* Left clicks: on every selector button, and on the pointer positions.
ClickPoints == {ButtonPoint(k) : k \in DOMAIN bodies} \cup MousePoints

MouseDownEvents ==
    {[type |-> "MOUSEBUTTONDOWN", button |-> b, pos |-> Vec(pt[1], pt[2])] :
        b \in {3, 4, 5}, pt \in MousePoints}
    \cup {[type |-> "MOUSEBUTTONDOWN", button |-> 1, pos |-> Vec(pt[1], pt[2])] :
            pt \in ClickPoints}

MouseUpEvents == {[type |-> "MOUSEBUTTONUP", button |-> b] : b \in {1, 3}}

MouseMotionEvents == {[type |-> "MOUSEMOTION", rel |-> Vec(r[1], r[2])] : r \in Rels}

(***************************************************************************)
(* The state after construction                                            *)
(***************************************************************************)
\* Camera.__init__, for a setup.
InitCameraFor(s) ==
    /\ min_zoom = s.min_zoom /\ max_zoom = s.max_zoom /\ screen_size = s.screen_size
    /\ position = Vec(0, 0)
    /\ zoom = Rat(1, 1)
    /\ dragging = FALSE
    /\ is_dragging = FALSE
    /\ last_mouse_pos = Vec(0, 0)
    /\ touches = <<>>
    /\ last_pinch_dist = NONE

InitHistory ==
    /\ event = [type |-> "NONE", button |-> 0, pos |-> NONE]
    /\ zoom_call = NONE
    /\ nEvents = 0
    /\ pan_button_held = FALSE
    /\ downs = 0 /\ ups = 0 /\ newDowns = 0 /\ liveUps = 0 /\ newMotions = 0

InitLock ==
    /\ selected_planet = NoPlanet
    /\ follow_planet = NoPlanet
    /\ camera_locked_to_planet = FALSE

\* The planets as load_solar_system leaves them, for the records a.
LoadedHeap(a) == [r \in Refs(a) |-> IF r <= Len(a) THEN InitialPosition(a[r]) ELSE Vec(0, 0)]

LoadedAngle(a) == [p \in DOMAIN a |-> <<0, 1>>]

LoadedPosRef(a) == [p \in DOMAIN a |-> p]

Loaded(a) ==
    /\ parent = LinkParents(a)
    /\ angle = LoadedAngle(a)
    /\ posRef = LoadedPosRef(a)
    /\ heap = LoadedHeap(a)

\* Sol, Terra in orbit, and Lua in orbit around Terra.
DefaultSystem ==
    << [name |-> "Sol", a_au |-> 0, period_days |-> 0, parent_name |-> NONE],
       [name |-> "Terra", a_au |-> 1, period_days |-> 1, parent_name |-> NONE],
       [name |-> "Lua", a_au |-> 1, period_days |-> 1, parent_name |-> "Terra"] >>

\* main at the first `for event in pygame.event.get()`, planets.json holding
\* the default system.
Init ==
    /\ pc = "events"
    /\ arr = DefaultSystem
    /\ bodies = reorder_bodies_for_buttons(arr, LoadedBodies(arr))
    /\ dt = 0
    /\ upd = 1
    /\ frames = 0
    /\ Loaded(arr)
    /\ InitLock
    /\ \E s \in Setups : InitCameraFor(s)
    /\ InitHistory

Budget == nEvents < MaxEvents

FingerDown ==
    Budget /\ \E e \in FingerEvents("FINGERDOWN") : ProcessEvent(e) /\ UNCHANGED countVars

FingerUp ==
    Budget /\ \E e \in FingerUpEvents(FingerIds) : ProcessEvent(e) /\ UNCHANGED countVars

FingerMotion ==
    Budget /\ \E e \in FingerEvents("FINGERMOTION") : ProcessEvent(e) /\ UNCHANGED countVars

MouseButtonDown == Budget /\ \E e \in MouseDownEvents : ProcessEvent(e) /\ UNCHANGED countVars

MouseButtonUp == Budget /\ \E e \in MouseUpEvents : ProcessEvent(e) /\ UNCHANGED countVars

MouseMotion == Budget /\ \E e \in MouseMotionEvents : ProcessEvent(e) /\ UNCHANGED countVars

Next ==
    \/ FingerDown
    \/ FingerUp
    \/ FingerMotion
    \/ MouseButtonDown
    \/ MouseButtonUp
    \/ MouseMotion

\* Mouse and touch events in any order, the default system loaded.
Spec == Init /\ [][Next]_vars

(***************************************************************************)
(* Touch events alone, counted                                             *)
(***************************************************************************)
TouchBudget == nEvents < MaxTouchEvents

Bump(active) == IF active THEN 1 ELSE 0

TouchDown ==
    /\ TouchBudget
    /\ \E e \in FingerEvents("FINGERDOWN") :
        /\ ProcessEvent(e)
        /\ downs' = downs + 1
        /\ newDowns' = newDowns + Bump(e.finger_id \notin DOMAIN touches)
        /\ UNCHANGED <<ups, liveUps, newMotions>>

TouchUp ==
    /\ TouchBudget
    /\ \E e \in FingerUpEvents(FingerIds) :
        /\ ProcessEvent(e)
        /\ ups' = ups + 1
        /\ liveUps' = liveUps + Bump(e.finger_id \in DOMAIN touches)
        /\ UNCHANGED <<downs, newDowns, newMotions>>

TouchMotion ==
    /\ TouchBudget
    /\ \E e \in FingerEvents("FINGERMOTION") :
        /\ ProcessEvent(e)
        /\ newMotions' = newMotions + Bump(e.finger_id \notin DOMAIN touches)
        /\ UNCHANGED <<downs, ups, newDowns, liveUps>>

NextTouch ==
    \/ TouchDown
    \/ TouchUp
    \/ TouchMotion

SpecTouch == Init /\ [][NextTouch]_vars

(***************************************************************************)
(* main.py: loading and the frame loop, without input events               *)
(***************************************************************************)
\* main before `bodies = load_solar_system()`, for any planets.json.
InitBodies ==
    /\ pc = "load"
    /\ arr \in Systems
    /\ bodies = <<>>
    /\ dt = 0
    /\ upd = 1
    /\ frames = 0
    /\ parent = <<>> /\ angle = <<>> /\ posRef = <<>> /\ heap = <<>>
    /\ InitLock
    /\ InitCameraFor(MainSetup)
    /\ InitHistory

\* bodies = load_solar_system()
LoadSolarSystem ==
    /\ pc = "load"
    /\ parent' = LinkParents(arr)
    /\ angle' = LoadedAngle(arr)
    /\ posRef' = LoadedPosRef(arr)
    /\ heap' = LoadedHeap(arr)
    /\ bodies' = LoadedBodies(arr)
    /\ pc' = "loaded"
    /\ UNCHANGED <<arr, dt, upd, frames, lockVars, camVars, envVars, histVars, countVars>>

\* bodies = reorder_bodies_for_buttons(bodies), up to the first clock.tick,
\* which returns one of `ticks`.
ReorderThenTick(ticks) ==
    /\ pc = "loaded"
    /\ bodies' = reorder_bodies_for_buttons(arr, bodies)
    /\ dt' \in ticks
    /\ pc' = "events"
    /\ UNCHANGED <<arr, upd, frames, lockVars, planetVars, camVars, envVars, histVars,
                   countVars>>

\* A main that keeps the lock while the user pans.
PanNeverReleasesLock == FALSE

\* `if camera_locked_to_planet and cam.is_dragging`
PanReleasesLock == camera_locked_to_planet /\ is_dragging

\* The event queue is drained: the lock is released if the user pans.
EventsDone(maxFrames) ==
    /\ pc = "events"
    /\ frames < maxFrames
    /\ IF PanReleasesLock
       THEN camera_locked_to_planet' = FALSE /\ follow_planet' = NoPlanet
       ELSE UNCHANGED <<camera_locked_to_planet, follow_planet>>
    /\ pc' = "update"
    /\ upd' = 1
    /\ UNCHANGED <<arr, bodies, dt, frames, selected_planet, planetVars, camVars, envVars,
                   histVars, countVars>>

\* One iteration of `for p in bodies: p.update_position(dt)`.
UpdateBody ==
    /\ pc = "update"
    /\ upd <= Len(bodies)
    /\ LET u == update_position(bodies[upd], dt)
       IN  angle' = u.angle /\ posRef' = u.posRef /\ heap' = u.heap
    /\ upd' = upd + 1
    /\ UNCHANGED <<pc, arr, bodies, dt, frames, parent, lockVars, camVars, envVars, histVars,
                   countVars>>

\* A main whose camera never follows.
FollowsNever == FALSE

\* `if camera_locked_to_planet and follow_planet is not None`
Follows == camera_locked_to_planet /\ follow_planet # NoPlanet

\* The rest of the frame: the camera follows its planet; the next clock.tick,
\* which returns one of `ticks`.
FrameDone(ticks) ==
    /\ pc = "update"
    /\ upd > Len(bodies)
    /\ IF Follows
       THEN position' = Pos(follow_planet)
       ELSE UNCHANGED position
    /\ frames' = frames + 1
    /\ dt' \in ticks
    /\ pc' = "events"
    /\ UNCHANGED <<arr, bodies, upd, lockVars, planetVars, zoom, dragging, is_dragging,
                   last_mouse_pos, touches, last_pinch_dist, envVars, histVars, countVars>>

Reorder == ReorderThenTick(TickMs)

EndEvents == EventsDone(MaxFrames)

EndFrame == FrameDone(TickMs)

NextBodies ==
    \/ LoadSolarSystem
    \/ Reorder
    \/ EndEvents
    \/ UpdateBody
    \/ EndFrame

SpecBodies == InitBodies /\ [][NextBodies]_vars

(***************************************************************************)
(* Two fingers around the dead zone of the pinch                           *)
(***************************************************************************)
PinchBudget == nEvents < MaxPinchEvents

PinchDown ==
    /\ PinchBudget
    /\ \E e \in FingerEventsOver("FINGERDOWN", PinchFingerIds, PinchPoints) : ProcessEvent(e)
    /\ UNCHANGED countVars

PinchUp ==
    /\ PinchBudget
    /\ \E e \in FingerUpEvents(PinchFingerIds) : ProcessEvent(e)
    /\ UNCHANGED countVars

PinchMotion ==
    /\ PinchBudget
    /\ \E e \in FingerEventsOver("FINGERMOTION", PinchFingerIds, PinchPoints) : ProcessEvent(e)
    /\ UNCHANGED countVars

NextPinch ==
    \/ PinchDown
    \/ PinchUp
    \/ PinchMotion

SpecPinch == Init /\ [][NextPinch]_vars

(***************************************************************************)
(* Planet.update_position under a fixed dt                                 *)
(***************************************************************************)
\* planets.json with Sol and Terra, on orbits of a day, of a year or static.
OrbitSystems == SystemsOver({"Sol", "Terra"}, YearOrbitParams, {"Sol", "Terra"})

InitOrbit ==
    /\ pc = "load"
    /\ arr \in OrbitSystems
    /\ bodies = <<>>
    /\ dt = 0
    /\ upd = 1
    /\ frames = 0
    /\ parent = <<>> /\ angle = <<>> /\ posRef = <<>> /\ heap = <<>>
    /\ InitLock
    /\ InitCameraFor(MainSetup)
    /\ InitHistory

\* The first dt, any of OrbitTicks.
OrbitFirstTick == ReorderThenTick(OrbitTicks)

OrbitEndEvents == EventsDone(MaxOrbitFrames)

\* Every frame has the dt of the first.
OrbitEndFrame == FrameDone({dt})

NextOrbit ==
    \/ LoadSolarSystem
    \/ OrbitFirstTick
    \/ OrbitEndEvents
    \/ UpdateBody
    \/ OrbitEndFrame

SpecOrbit == InitOrbit /\ [][NextOrbit]_vars

(***************************************************************************)
(* Mouse events alone                                                      *)
(***************************************************************************)
MouseBudget == nEvents < MaxMouseEvents

MousePress ==
    MouseBudget /\ \E e \in MouseDownEvents : ProcessEvent(e) /\ UNCHANGED countVars

MouseRelease ==
    MouseBudget /\ \E e \in MouseUpEvents : ProcessEvent(e) /\ UNCHANGED countVars

MouseMove ==
    MouseBudget /\ \E e \in MouseMotionEvents : ProcessEvent(e) /\ UNCHANGED countVars

NextMouse ==
    \/ MousePress
    \/ MouseRelease
    \/ MouseMove

\* No finger ever touches the screen.
SpecMouse == Init /\ [][NextMouse]_vars

(***************************************************************************)
(* main.py: the frame loop with its input events                           *)
(***************************************************************************)
\* The events of a frame: the pan button and left clicks on the selector
\* buttons, releases, pointer motion, and one finger going down and up.
FrameEvents ==
    {[type |-> "MOUSEBUTTONDOWN", button |-> b, pos |-> Vec(ButtonPoint(k)[1], ButtonPoint(k)[2])] :
        b \in {1, 3}, k \in DOMAIN bodies}
    \cup MouseUpEvents
    \cup MouseMotionEvents
    \cup FingerEventsOver("FINGERDOWN", {1}, {<<100, 300>>})
    \cup FingerUpEvents({1})

\* One iteration of `for event in pygame.event.get()`.
FrameEvent ==
    /\ nEvents < MaxFrameEvents
    /\ \E e \in FrameEvents : ProcessEvent(e)
    /\ UNCHANGED countVars

NextFrame ==
    \/ FrameEvent
    \/ EndEvents
    \/ UpdateBody
    \/ EndFrame

\* The frames of main: events, lock release, update of the bodies, follow.
SpecFrame == Init /\ [][NextFrame]_vars

(***************************************************************************)
(* Properties                                                              *)
(***************************************************************************)
TouchCount == Cardinality(DOMAIN touches)

\* Planet.draw / is_clicked: screenPos = (worldPos - position) * zoom + center
ToScreen(world, pos, z) == VAdd(VScale(VSub(world, pos), z), screen_center)

\* C1. Zoom bounds: in every state reachable by scroll, pinch and
\* focus-button events, min_zoom <= zoom <= max_zoom (inclusive), and so
\* zoom is never 0 or negative.
C1_ZoomBounds ==
    /\ RLe(min_zoom, zoom)
    /\ RLe(zoom, max_zoom)
    /\ RLt(Int2R(0), zoom)

\* A scroll-down has left the zoom on the upper limit.
C1_Witness ==
    /\ zoom = max_zoom
    /\ event.type = "MOUSEBUTTONDOWN"
    /\ event.button = 5
    /\ nEvents >= 2

\* C2 as claimed. Touch count: the number of entries of touches equals the
\* number of touch-down events minus the number of touch-up events, for any
\* finger ids.
C2_CountIsDownsMinusUps == TouchCount = downs - ups

\* C2 as amended. Touch count: as long as every touch-motion is for an active
\* finger, the number of entries of touches equals the number of touch-downs
\* for a finger not already active minus the number of touch-ups for an
\* active finger, and is never negative.
C2_TouchCount ==
    newMotions = 0 => (TouchCount = newDowns - liveUps /\ newDowns - liveUps >= 0)

\* A repeated down and a stray up have happened, and a touch is active.
C2_Witness ==
    /\ newMotions = 0
    /\ downs > newDowns
    /\ ups > liveUps
    /\ TouchCount = 1

\* C3 as claimed. Pinch baseline validity: last_pinch_dist is not None only
\* when exactly two touches are active.
C3_BaselineOnlyAtTwo == last_pinch_dist # NONE => TouchCount = 2

\* C4. Event routing: while a touch is active, a pan-button press or release,
\* a scroll or a mouse motion leaves position, zoom, the dragging flags,
\* touches and last_pinch_dist unchanged.
RoutedMouseKind(k) ==
    \/ k.type = "MOUSEBUTTONDOWN" /\ k.button \in {3, 4, 5}
    \/ k.type = "MOUSEBUTTONUP" /\ k.button = 3
    \/ k.type = "MOUSEMOTION"

C4_EventRouting ==
    [][(nEvents' = nEvents + 1 /\ DOMAIN touches # {} /\ RoutedMouseKind(event'))
         => UNCHANGED <<position, zoom, dragging, is_dragging, touches, last_pinch_dist>>]_vars

\* A scroll arrived while a finger was dragging.
C4_Witness ==
    /\ TouchCount = 1
    /\ is_dragging
    /\ event.type = "MOUSEBUTTONDOWN"
    /\ event.button = 4

\* C5. Zoom-anchor invariance: after every call of _apply_zoom_around_point,
\* whatever the anchor and the requested zoom (clamped or not), the world
\* point that was under the anchor before the call is under it again:
\* (world_before - position) * zoom + screen_center = screen_point.
C5_ZoomAnchor ==
    zoom_call # NONE =>
        ToScreen(zoom_call[2], position, zoom) = zoom_call[1]

\* A scroll away from the centre has moved the camera, and another one was
\* clamped.
C5_Witness ==
    /\ event.type = "MOUSEBUTTONDOWN"
    /\ event.button = 5
    /\ zoom = max_zoom
    /\ zoom_call # NONE
    /\ zoom_call[1] # screen_center
    /\ position # Vec(0, 0)
    /\ nEvents = 2

\* The n-th ancestor of p along the parent links, or NoPlanet.
RECURSIVE Up(_, _, _)
Up(par, p, n) ==
    IF n = 0 THEN p
    ELSE LET q == Up(par, p, n - 1) IN IF q = NoPlanet THEN NoPlanet ELSE par[q]

IsOwnAncestor(par, p) == \E n \in 1..Cardinality(DOMAIN par) : Up(par, p, n) = p

Forest(par) == \A p \in DOMAIN par : ~IsOwnAncestor(par, p)

\* C6 as claimed. Update order: for every set of records whose parent links
\* form no cycle, the list the frame loop iterates places every body's
\* parent before that body.
C6_ParentsFirst ==
    (pc \in {"events", "update"} /\ Forest(parent)) =>
        \A i \in DOMAIN bodies :
            parent[bodies[i]] # NoPlanet =>
                \E j \in 1..(i - 1) : bodies[j] = parent[bodies[i]]

\* C7 as claimed. Acyclic body graph: after the parent links are resolved no
\* body is, directly or through other bodies, its own parent.
C7_Acyclic == pc # "load" => Forest(parent)

\* C8. Parent rigidity: at the end of every frame, a body with a_au = 0 and a
\* parent that was updated before it is where its parent is; and its position
\* is a copy: the update of another body (its parent's, in the next frame)
\* leaves it where it was.
RigidChild(b) == arr[b].a_au = 0 /\ parent[b] # NoPlanet

LastIdx(list, p) == CHOOSE i \in DOMAIN list : list[i] = p /\ \A j \in DOMAIN list : list[j] = p => j <= i

ParentRanFirst(b) == LastIdx(bodies, parent[b]) < LastIdx(bodies, b)

Clamped(z) == IF RLt(z, min_zoom) THEN min_zoom ELSE IF RLt(max_zoom, z) THEN max_zoom ELSE z

\* The point halfway between the two touches of t.
MidOf(t) ==
    LET a == CHOOSE i \in DOMAIN t : TRUE
        b == CHOOSE i \in DOMAIN t : i # a
    IN  <<RDiv(RAdd(t[a][1], t[b][1]), Int2R(2)), RDiv(RAdd(t[a][2], t[b][2]), Int2R(2))>>

\* A touch-motion step with two touches before and after it that changed the zoom.
PinchStep ==
    /\ nEvents' = nEvents + 1
    /\ event'.type = "FINGERMOTION"
    /\ TouchCount = 2
    /\ DOMAIN touches' = DOMAIN touches
    /\ zoom_call' # NONE

\* Touches a and b at (100,300) and (200,300), baseline 100; a moves to (50,300).
PinchScenario(a, b) ==
    /\ a # b
    /\ touches = (a :> Vec(100, 300) @@ b :> Vec(200, 300))
    /\ last_pinch_dist = Int2R(100 * 100)
    /\ nEvents' = nEvents + 1
    /\ event'.type = "FINGERMOTION"
    /\ touches' = (a :> Vec(50, 300) @@ b :> Vec(200, 300))

\* C9 as claimed. Pinch step and anchor: in the scenario the zoom is
\* multiplied by 0.9 (clamped) in one step anchored at (150,300), the midpoint
\* of the touches as they were before the move; every pinch step is anchored
\* at the pre-move midpoint.
C9_PreMoveAnchor ==
    [][(event'.type = "FINGERMOTION" /\ TouchCount = 2) =>
          /\ \A a, b \in FingerIds :
                PinchScenario(a, b) =>
                    /\ zoom' = Clamped(RMul(zoom, Rat(9, 10)))
                    /\ zoom_call' # NONE
                    /\ zoom_call'[1] = Vec(150, 300)
          /\ PinchStep => zoom_call'[1] = MidOf(touches)]_vars

\* C9 as amended. Pinch step and anchor: in the scenario the zoom is
\* multiplied by 0.9 (clamped) in one step anchored at (125,300), the midpoint
\* of the touches as they are after the move; every pinch step is anchored at
\* the post-move midpoint.
C9_PostMoveAnchor ==
    [][(event'.type = "FINGERMOTION" /\ TouchCount = 2) =>
          /\ \A a, b \in FingerIds :
                PinchScenario(a, b) =>
                    /\ zoom' = Clamped(RMul(zoom, Rat(9, 10)))
                    /\ zoom_call' # NONE
                    /\ zoom_call'[1] = Vec(125, 300)
          /\ PinchStep => zoom_call'[1] = MidOf(touches')]_vars

\* The scenario has run: down at (100,300), down at (200,300), the first
\* finger moved to (50,300).
C9_Witness ==
    /\ nEvents = 3
    /\ event.type = "FINGERMOTION"
    /\ last_mouse_pos = Vec(100, 300)
    /\ \E a, b \in FingerIds :
        a # b /\ touches = (a :> Vec(50, 300) @@ b :> Vec(200, 300))
    /\ last_pinch_dist = Int2R(150 * 150)
    /\ zoom = Rat(9, 10)
    /\ zoom_call # NONE
    /\ zoom_call[1] = Vec(125, 300)

\* C10. Scroll zoom: with no touch active a scroll-up sets zoom to
\* clamp(0.9 * zoom) and a scroll-down to clamp(1.1 * zoom), anchored at the
\* pointer position; with the pointer at the screen centre the position does
\* not change.
ScrollStep(button) ==
    /\ nEvents' = nEvents + 1
    /\ DOMAIN touches = {}
    /\ event'.type = "MOUSEBUTTONDOWN"
    /\ event'.button = button

C10_ScrollZoom ==
    [][/\ ScrollStep(4) => zoom' = Clamped(RMul(zoom, Rat(9, 10)))
       /\ ScrollStep(5) => zoom' = Clamped(RMul(zoom, Rat(11, 10)))
       /\ (ScrollStep(4) \/ ScrollStep(5)) =>
            /\ zoom_call' # NONE
            /\ zoom_call'[1] = event'.pos
            /\ zoom_call'[2] = WorldBefore(event'.pos)
            /\ ToScreen(zoom_call'[2], position', zoom') = event'.pos
            /\ (event'.pos = screen_center => position' = position)]_vars

\* 800x600, position (0,0), zoom 1: after a scroll-up at (400,300) the zoom is
\* 0.9 and the position still (0,0).
C10_Witness ==
    /\ screen_size = <<800, 600>>
    /\ nEvents = 1
    /\ event.type = "MOUSEBUTTONDOWN"
    /\ event.button = 4
    /\ event.pos = Vec(400, 300)
    /\ zoom = Rat(9, 10)
    /\ position = Vec(0, 0)

\* The deltas of a pan: mouse motions, and the displacements between touch points.
PanDeltas ==
    {Vec(r[1], r[2]) : r \in Rels}
        \cup {VSub(Vec(p[1], p[2]), Vec(q[1], q[2])) : p, q \in TouchPoints}

\* A step that pans: a mouse motion, or a motion that leaves one touch active.
PanStep ==
    /\ nEvents' = nEvents + 1
    /\ \/ event'.type = "MOUSEMOTION"
       \/ event'.type = "FINGERMOTION" /\ Cardinality(DOMAIN touches') = 1

\* C11. Pan reversibility: in every camera state, for every delta d, a pan by
\* d followed by a pan by -d at the same zoom gives back the position, and no
\* pan step changes the zoom.
C11_PanReversible ==
    /\ [](\A d \in PanDeltas :
            PanFrom(PanFrom(position, zoom, d), zoom, <<RNeg(d[1]), RNeg(d[2])>>) = position)
    /\ [][PanStep => zoom' = zoom]_vars

\* The pan button pressed, a motion by d and a motion by -d: the camera is back
\* where it started, at the zoom it started with.
C11_Witness ==
    /\ nEvents = 3
    /\ event.type = "MOUSEMOTION"
    /\ dragging
    /\ DOMAIN touches = {}
    /\ position = Vec(0, 0)
    /\ zoom = Int2R(1)

\* The record of body b names a parent that no record of the file is named.
Unresolvable(b) ==
    /\ arr[b].parent_name # NONE
    /\ \A q \in DOMAIN arr : arr[q].name # arr[b].parent_name

\* The place on an orbit around the origin of a body with record rec at angle a.
OriginOrbit(rec, a) ==
    IF rec.period_days <= 0 \/ rec.a_au <= 0
    THEN Vec(0, 0)
    ELSE Vec(CosTurn(a) * rec.a_au * AU_TO_PX, SinTurn(a) * rec.a_au * AU_TO_PX)

\* C12. Unresolvable parent: once the file is loaded every record is a body,
\* a body whose parent_name matches no body has parent None, every body whose
\* parent_name matches a body is linked to that body, and each update_position
\* of an unresolvable body puts it on its orbit around the origin.
C12_UnresolvableParent ==
    /\ [](pc # "load" =>
            /\ Range(bodies) = DOMAIN arr
            /\ \A b \in DOMAIN arr :
                /\ Unresolvable(b) => parent[b] = NoPlanet
                /\ (arr[b].parent_name # NONE /\ ~Unresolvable(b)) =>
                     /\ parent[b] # NoPlanet
                     /\ arr[parent[b]].name = arr[b].parent_name)
    /\ [][(pc = "update" /\ upd <= Len(bodies)) =>
            \A b \in DOMAIN arr :
                (b = bodies[upd] /\ Unresolvable(b)) => Pos(b)' = OriginOrbit(arr[b], angle'[b])]_vars

\* A body with an unknown parent_name has moved a quarter turn around the
\* origin, next to a body whose link was resolved.
C12_Witness ==
    /\ pc = "events"
    /\ frames >= 1
    /\ \E b, c \in DOMAIN arr :
        /\ Unresolvable(b)
        /\ parent[b] = NoPlanet
        /\ arr[b].a_au = 1
        /\ angle[b] = <<1, 4>>
        /\ Pos(b) = Vec(0, 3000)
        /\ parent[c] = b

\* C13. Dragging flag: is_dragging is true whenever the pan button has been
\* pressed (with no touch active) and not yet released, or exactly one touch is
\* active.
C13_DraggingWhilePanning == (pan_button_held \/ TouchCount = 1) => is_dragging

\* A body without parent on the orbit of a_au = 1 and period_days = 365.
YearBody(b) ==
    /\ parent[b] = NoPlanet
    /\ arr[b].a_au = 1
    /\ arr[b].period_days = 365

\* C14. Orbit determinism: a parentless body with a_au = 1 and period_days =
\* 365, updated in equal dt steps whose total is 365 * 86400 / TIME_SCALE
\* seconds (1051200 s), has the angle and the position of its first placement
\* on the orbit, angle 0 at (a_au * AU_TO_PX, 0).
C14_OrbitReturns ==
    (pc = "events" /\ dt > 0 /\ frames * dt = 1051200) =>
        \A b \in DOMAIN arr :
            YearBody(b) => angle[b] = <<0, 1>> /\ Pos(b) = Vec(3000, 0)

\* Four steps of a quarter of the period each have brought a body on the year
\* orbit back to its first place.
C14_Witness ==
    /\ pc = "events"
    /\ frames = 4
    /\ dt = 262800
    /\ \E b \in DOMAIN arr : YearBody(b) /\ angle[b] = <<0, 1>> /\ Pos(b) = Vec(3000, 0)

\* C15. Angle range: after any sequence of update_position calls with any dt,
\* zero and negative included, every body's angle is at least 0 and below one
\* full turn.
C15_AngleRange ==
    \A b \in DOMAIN angle : RLe(<<0, 1>>, angle[b]) /\ RLt(angle[b], <<1, 1>>)

\* The squared distance between the two touches of t.
TouchDistance2(t) ==
    LET a == CHOOSE i \in DOMAIN t : TRUE
        b == CHOOSE i \in DOMAIN t : i # a
    IN  distance_to2(t[a], t[b])

\* C16. Pinch baseline tracks current distance: whenever exactly two touches
\* are active, last_pinch_dist is the distance between the two recorded touch
\* positions, however the two touches were reached.
C16_BaselineIsCurrentDistance ==
    TouchCount = 2 => last_pinch_dist = TouchDistance2(touches)

\* A touch-motion step that leaves exactly two touches active.
TwoTouchMotion ==
    /\ nEvents' = nEvents + 1
    /\ event'.type = "FINGERMOTION"
    /\ Cardinality(DOMAIN touches') = 2

\* The square of newDistance / lastDistance in a two-touch motion step.
PinchRatio2 == RDiv(TouchDistance2(touches'), last_pinch_dist)

\* C17. Pinch dead-zone: on a touch-motion event with exactly two touches
\* active and a positive baseline, a ratio newDistance/lastDistance above 1.01
\* sets zoom to 0.9 * zoom (clamped), a ratio below 0.99 sets it to 1.1 * zoom
\* (clamped), and a ratio from 0.99 to 1.01 leaves zoom and position unchanged.
C17_PinchDeadZone ==
    [][(TwoTouchMotion /\ last_pinch_dist # NONE /\ RLt(Int2R(0), last_pinch_dist)) =>
          IF RLt(Rat(101 * 101, 100 * 100), PinchRatio2)
          THEN zoom' = Clamped(RMul(zoom, Rat(9, 10)))
          ELSE IF RLt(PinchRatio2, Rat(99 * 99, 100 * 100))
          THEN zoom' = Clamped(RMul(zoom, Rat(11, 10)))
          ELSE zoom' = zoom /\ position' = position]_vars

\* Two touches 100 px apart, then one moved to make it 101 px: a ratio of
\* exactly 1.01, and the camera has not moved.
C17_Witness ==
    /\ nEvents = 3
    /\ event.type = "FINGERMOTION"
    /\ \E a, b \in PinchFingerIds :
        a # b /\ touches = (a :> Vec(100, 300) @@ b :> Vec(201, 300))
    /\ last_pinch_dist = Int2R(101 * 101)
    /\ last_mouse_pos = Vec(100, 300)
    /\ zoom = Int2R(1)
    /\ position = Vec(0, 0)

\* C18. Zero pinch baseline: a touch-motion event that leaves exactly two
\* touches active while the stored baseline is 0 or None makes no zoom step:
\* zoom, position and the dragging state are unchanged, and the baseline
\* becomes the new distance.
C18_ZeroBaseline ==
    [][(TwoTouchMotion /\ (last_pinch_dist = NONE \/ last_pinch_dist = Int2R(0))) =>
          /\ zoom' = zoom
          /\ position' = position
          /\ UNCHANGED <<dragging, is_dragging, last_mouse_pos>>
          /\ last_pinch_dist' = TouchDistance2(touches')]_vars

\* One touch down and a motion of a second finger that had no touch-down: the
\* baseline was None, it is now the distance of 100 px, and the camera is as
\* it was.
C18_Witness ==
    /\ nEvents = 2
    /\ event.type = "FINGERMOTION"
    /\ newMotions = 1
    /\ TouchCount = 2
    /\ last_pinch_dist = Int2R(100 * 100)
    /\ zoom = Int2R(1)
    /\ position = Vec(0, 0)

\* C19. Touch-motion never changes the touch count: a touch-motion event, for
\* any finger id, leaves the number of active touches as it was; a touch-down
\* removes no entry and a touch-up adds none.
C19_MotionKeepsCount ==
    [][nEvents' = nEvents + 1 =>
          /\ event'.type = "FINGERMOTION" => Cardinality(DOMAIN touches') = TouchCount
          /\ event'.type = "FINGERDOWN" => Cardinality(DOMAIN touches') >= TouchCount
          /\ event'.type = "FINGERUP" => Cardinality(DOMAIN touches') <= TouchCount]_vars

\* The position after a pan of the camera by the displacement from p to q.
PannedBy(p, q) ==
    LET k == RDiv(Int2R(3), IF RLt(zoom, Rat(1, 20)) THEN Rat(1, 20) ELSE zoom)
    IN  <<RSub(position[1], RMul(RSub(q[1], p[1]), k)),
          RSub(position[2], RMul(RSub(q[2], p[2]), k))>>

\* C20. Resume after pinch: a touch-up that reduces the active touches from
\* two to one sets last_pinch_dist to None, leaves dragging true and leaves
\* zoom and position unchanged; every motion of the only active touch, the
\* first after such a touch-up included, pans by the displacement of that
\* touch from its own last recorded position and leaves the zoom unchanged.
C20_ResumeAfterPinch ==
    [][nEvents' = nEvents + 1 =>
          /\ (event'.type = "FINGERUP" /\ TouchCount = 2 /\ Cardinality(DOMAIN touches') = 1) =>
                /\ last_pinch_dist' = NONE
                /\ dragging' /\ is_dragging'
                /\ zoom' = zoom
                /\ position' = position
          /\ (event'.type = "FINGERMOTION" /\ TouchCount = 1 /\ DOMAIN touches' = DOMAIN touches) =>
                \A f \in DOMAIN touches :
                    /\ position' = PannedBy(touches[f], touches'[f])
                    /\ zoom' = zoom]_vars

\* Touches at (100,300) and (200,300), the second lifted, the first moved to
\* (50,300): the camera has panned by the 50 px of that move.
C20_Witness ==
    /\ nEvents = 4
    /\ event.type = "FINGERMOTION"
    /\ downs = 2 /\ newDowns = 2 /\ ups = 1 /\ liveUps = 1
    /\ \E a \in FingerIds : touches = (a :> Vec(50, 300))
    /\ last_mouse_pos = Vec(100, 300)
    /\ last_pinch_dist = NONE
    /\ dragging /\ is_dragging
    /\ zoom = Int2R(1)
    /\ position = Vec(150, 0)

\* C21: with no touch ever active, a mouse-motion event changes the camera
\* position only while the pan button (3) is held, that is between its press
\* and its next release; once it is released is_dragging is false, so that
\* further motion leaves the position as it is; and mouse motion never
\* changes the zoom.
C21_MousePanLifecycle ==
    /\ [](~pan_button_held => ~is_dragging /\ ~dragging)
    /\ [][event'.type = "MOUSEMOTION" =>
             /\ zoom' = zoom
             /\ (~pan_button_held => position' = position)]_vars
    /\ [][(event'.type = "MOUSEBUTTONUP" /\ event'.button = 3) =>
             ~is_dragging' /\ ~pan_button_held']_vars

\* Press, pan, release, and a motion that no longer moves the camera: only a
\* pan takes the camera off the origin at zoom 1 with no body selected.
C21_Witness ==
    /\ event.type = "MOUSEMOTION"
    /\ nEvents = 4
    /\ ~pan_button_held /\ ~is_dragging
    /\ zoom = Rat(1, 1)
    /\ selected_planet = NoPlanet
    /\ position # Vec(0, 0)

\* C22: whenever is_dragging is true once the events of a frame have been
\* applied, the lock is released before the bodies are advanced
\* (camera_locked_to_planet false, follow_planet None), and the follow step
\* of that frame leaves the camera position as it is, even when a click on a
\* selector button set the lock in that frame.
C22_PanReleasesLock ==
    /\ []((pc = "update" /\ is_dragging) =>
            (~camera_locked_to_planet /\ follow_planet = NoPlanet))
    /\ [][(pc = "events" /\ pc' = "update" /\ is_dragging) =>
             (~camera_locked_to_planet' /\ follow_planet' = NoPlanet)]_vars
    /\ [][(pc = "update" /\ pc' = "events" /\ is_dragging) => position' = position]_vars

\* A frame is over whose last event was a click on a selector button while
\* the pan button was held: the click locked the camera, the frame released it.
C22_Witness ==
    /\ pc = "events" /\ frames = 1
    /\ nEvents = 2
    /\ pan_button_held /\ is_dragging
    /\ event.type = "MOUSEBUTTONDOWN" /\ event.button = 1
    /\ ClickedButton(event.pos) # 0
    /\ selected_planet = bodies[ClickedButton(event.pos)]
    /\ ~camera_locked_to_planet /\ follow_planet = NoPlanet

\* C23: a call of update_position on a body with period_days <= 0 or
\* a_au <= 0, for any dt, leaves its angle as it is and sets its position to
\* the origin if it has no parent, and to the position its parent has at the
\* call otherwise.
C23_DegenerateStatic ==
    [][\A b \in DOMAIN arr :
          (/\ pc = "update" /\ upd <= Len(bodies) /\ upd' = upd + 1
           /\ b = bodies[upd]
           /\ (arr[b].period_days <= 0 \/ arr[b].a_au <= 0))
          => /\ angle'[b] = angle[b]
             /\ heap'[posRef'[b]] =
                   IF parent[b] = NoPlanet THEN Vec(0, 0) ELSE heap[posRef[parent[b]]]]_vars

\* A body with a period of zero and a positive semi-major axis has been
\* updated under a dt other than zero: it went to where its parent, a
\* quarter turn into its orbit, is; its angle is still zero.
C23_Witness ==
    /\ pc = "update" /\ upd > 1 /\ dt # 0
    /\ \E b \in DOMAIN arr :
          /\ b = bodies[upd - 1]
          /\ arr[b].period_days = 0 /\ arr[b].a_au = 1
          /\ parent[b] # NoPlanet /\ parent[b] # b
          /\ Pos(b) = Pos(parent[b])
          /\ Pos(b) = Vec(0, AU_TO_PX)
          /\ angle[b] = <<0, 1>>

\* C24: the lock flag is true exactly when follow_planet is not None, and at
\* the end of every frame that leaves the camera locked, follow_planet is not
\* None and the camera position is the position that body has after the
\* update of that frame.
C24_FollowInvariant ==
    /\ [](camera_locked_to_planet <=> follow_planet # NoPlanet)
    /\ [][(pc = "update" /\ pc' = "events" /\ camera_locked_to_planet') =>
             /\ follow_planet' # NoPlanet
             /\ position' = heap'[posRef'[follow_planet']]]_vars

\* The second frame is over with the camera locked to Terra, which that
\* frame took a quarter turn into its orbit, and the camera is there.
C24_Witness ==
    /\ pc = "events" /\ frames = 2
    /\ camera_locked_to_planet
    /\ follow_planet # NoPlanet
    /\ arr[follow_planet].name = "Terra"
    /\ Pos(follow_planet) = Vec(0, AU_TO_PX)
    /\ position = Vec(0, AU_TO_PX)

\* C25: with three or more touches active, a touch-motion event changes the
\* recorded position of one touch at most and nothing else: zoom, camera
\* position, last_pinch_dist and the drag flags stay as they are.
C25_ThreeTouchesInert ==
    [][(nEvents' = nEvents + 1 /\ event'.type = "FINGERMOTION" /\ TouchCount >= 3) =>
          /\ zoom' = zoom
          /\ position' = position
          /\ last_pinch_dist' = last_pinch_dist
          /\ UNCHANGED <<dragging, is_dragging, last_mouse_pos>>
          /\ DOMAIN touches \subseteq DOMAIN touches'
          /\ \E f \in DOMAIN touches' :
                \A g \in DOMAIN touches : g # f => touches'[g] = touches[g]]_vars

\* Three fingers went down and one of the first two then moved: no two
\* touches are at the distance the baseline still holds, and the camera is
\* where it started.
C25_Witness ==
    /\ nEvents = 4
    /\ event.type = "FINGERMOTION"
    /\ TouchCount = 3
    /\ last_pinch_dist = Int2R(100 * 100)
    /\ \A f, g \in DOMAIN touches :
          f # g => distance_to2(touches[f], touches[g]) # last_pinch_dist
    /\ zoom = Rat(1, 1)
    /\ position = Vec(0, 0)

====
